---------------------------- MODULE Spec2Model ----------------------------
(***************************************************************************)
(* Oneshot channels of src/channels: unsafe_oneshot (unchecked),           *)
(* safer_oneshot (runtime-checked) and compile_time_oneshot (statically    *)
(* checked), and the demonstration program of main.rs.                     *)
(*                                                                         *)
(* Every atomic operation on a flag is one step.  A write of the slot is   *)
(* an interval (SendWriteBegin .. SendWriteEnd) so that an access that     *)
(* overlaps it is visible; a read of the slot is one step.  A data race or *)
(* a read of an uninitialised slot is undefined behaviour: `ub` becomes    *)
(* TRUE and what is read or left in the slot is any of ReadGarbage.        *)
(***************************************************************************)
EXTENDS Naturals, Sequences, FiniteSets

VARIABLES
    variant,     \* which Channel type this instance is
    message,     \* Channel.message : UnsafeCell<MaybeUninit<T>> (its bits)
    in_use,      \* safer_oneshot Channel.in_use
    ready,       \* Channel.ready
    strong,      \* compile_time_oneshot: strong count of the Arc<Channel>
    alive,       \* the Channel has not been torn down yet
    writers,     \* threads inside MaybeUninit::write on the slot
    ub,          \* undefined behaviour has happened (race / uninit read)
    pc,          \* each thread's position
    arg,         \* the `message` argument of the thread's send call
    ret,         \* how the thread's last call ended
    got,         \* the value the thread's last receive returned
    guarded,     \* the thread's receive was called right after is_ready = true
    steps,       \* steps the thread has taken inside its current call
    calls,       \* calls issued so far (bounded by MaxCalls)
    sent,        \* values passed to send, in call order
    written,     \* values whose write into the slot completed, in order
    handed,      \* values returned by receive, in order
    unguarded,   \* some receive was called without is_ready = true before it
    destructed,  \* number of assume_init_drop calls on the slot
    teardowns,   \* number of times the Channel was torn down
    mpc,         \* main.rs: position of the main thread
    spc,         \* main.rs: position of the spawned thread
    token,       \* main.rs: park token of the main thread
    queue,       \* mutex_based Channel.queue: the VecDeque inside the Mutex
    queue_lock,  \* mutex_based: the thread holding the Mutex, 0 if none
    item_ready,  \* mutex_based Channel.item_ready: threads blocked in wait
    qpc,         \* mutex_based: each thread's position
    qarg,        \* mutex_based: the `message` argument of the thread's send
    qgot,        \* mutex_based: the message the thread's last receive returned
    qsent,       \* mutex_based: number of send calls issued
    qrecv,       \* mutex_based: number of receive calls issued
    pushed,      \* mutex_based: messages in the order push_back stored them
    popped       \* mutex_based: messages in the order pop_front returned them

chanVars == <<variant, message, in_use, ready, strong, alive, writers, ub>>
thrVars  == <<pc, arg, ret, got, guarded, steps, calls>>
histVars == <<sent, written, handed, unguarded, destructed, teardowns>>
demoVars == <<mpc, spc, token>>
mutexVars == <<queue, queue_lock, item_ready, qpc, qarg, qgot, qsent, qrecv,
               pushed, popped>>
vars     == <<chanVars, thrVars, histVars, demoVars, mutexVars>>

---------------------------------------------------------------------------
(* Bounds *)
NumThreads == 2
MaxCalls   == 4

Threads  == 1 .. NumThreads
Hello    == "Hello World!"
Values   == {Hello, "other"}
Variants == {"unchecked", "runtime", "static"}

\* compile_time_oneshot: the thread that owns the Sender / the Receiver
SenderT   == 1
ReceiverT == 2

\* The panic messages of safer_oneshot / compile_time_oneshot
SendPanic == "Can't send more than one message!"
RecvPanic == "No message available!"

\* What an undefined read, or a raced write, can leave behind.
ReadGarbage == Values \cup {"garbage"}

---------------------------------------------------------------------------
(* Construction *)

\* Channel::new / channel(): message uninit, flags false; the Arc of the
\* statically checked variant starts with two owners (a and a.clone()).
NewChannel(kind) ==
    /\ variant = kind
    /\ message = "uninit"
    /\ in_use = FALSE
    /\ ready = FALSE
    /\ strong = IF kind = "static" THEN 2 ELSE 0
    /\ alive = TRUE
    /\ writers = {}
    /\ ub = FALSE

InitThreads(kind) ==
    /\ pc = [t \in Threads |->
               IF kind = "static" /\ t \notin {SenderT, ReceiverT}
               THEN "gone" ELSE "idle"]
    /\ arg = [t \in Threads |-> "none"]
    /\ ret = [t \in Threads |-> "none"]
    /\ got = [t \in Threads |-> "none"]
    /\ guarded = [t \in Threads |-> FALSE]
    /\ steps = [t \in Threads |-> 0]
    /\ calls = 0

InitHist ==
    /\ sent = <<>>
    /\ written = <<>>
    /\ handed = <<>>
    /\ unguarded = FALSE
    /\ destructed = 0
    /\ teardowns = 0

\* mutex_based Channel::new: an empty queue, unlocked, nobody waiting
NewMutexChannel ==
    /\ queue = <<>>
    /\ queue_lock = 0
    /\ item_ready = {}
    /\ qpc = [t \in Threads |-> "idle"]
    /\ qarg = [t \in Threads |-> 0]
    /\ qgot = [t \in Threads |-> 0]
    /\ qsent = 0
    /\ qrecv = 0
    /\ pushed = <<>>
    /\ popped = <<>>

Init ==
    /\ \E kind \in Variants : NewChannel(kind) /\ InitThreads(kind)
    /\ InitHist
    /\ mpc = "off"
    /\ spc = "off"
    /\ token = FALSE
    /\ NewMutexChannel

---------------------------------------------------------------------------
(* Helpers *)

\* Where a call that has finished leaves the thread: by-value self of the
\* statically checked variant is dropped next, the others just return.
AfterCall == IF variant = "static" THEN "arc_drop" ELSE "idle"

\* A thread may start a call: the channel exists, the thread is between
\* calls, and in the statically checked variant it owns the right handle.
CanCall(t, owner) ==
    /\ alive
    /\ pc[t] = "idle"
    /\ variant = "static" => t = owner

Goto(t, where) ==
    /\ pc' = [pc EXCEPT ![t] = where]
    /\ steps' = [steps EXCEPT ![t] = @ + 1]

Begin(t, where) ==
    /\ pc' = [pc EXCEPT ![t] = where]
    /\ steps' = [steps EXCEPT ![t] = 0]
    /\ ret' = [ret EXCEPT ![t] = "none"]
    /\ got' = [got EXCEPT ![t] = "none"]

\* Mutant of ChannelDrop: no Drop impl, the slot is never looked at.
ChannelDropForgets ==
    /\ alive' = FALSE
    /\ teardowns' = teardowns + 1
    /\ destructed' = destructed

\* Mutant of ChannelDrop: the message is dropped without testing ready.
ChannelDropUnconditional ==
    /\ alive' = FALSE
    /\ teardowns' = teardowns + 1
    /\ destructed' = IF variant # "unchecked"
                     THEN destructed + 1 ELSE destructed

\* Mutant of ChannelDrop: the unchecked Channel has the Drop impl too.
ChannelDropAllVariants ==
    /\ alive' = FALSE
    /\ teardowns' = teardowns + 1
    /\ destructed' = IF ready THEN destructed + 1 ELSE destructed

\* impl Drop for Channel: drop the message if ready is set.  The unchecked
\* Channel has no Drop impl, and MaybeUninit never drops its contents.
ChannelDrop ==
    /\ alive' = FALSE
    /\ teardowns' = teardowns + 1
    /\ destructed' = IF variant # "unchecked" /\ ready
                     THEN destructed + 1 ELSE destructed

---------------------------------------------------------------------------
(* send *)

CallSend(t, v) ==
    /\ CanCall(t, SenderT)
    /\ Begin(t, IF variant = "runtime" THEN "send_swap" ELSE "send_write")
    /\ arg' = [arg EXCEPT ![t] = v]
    /\ sent' = Append(sent, v)
    /\ UNCHANGED <<chanVars, guarded, written, handed, unguarded, destructed, teardowns>>

\* Mutant of SendSwap: the send tests ready, not in_use, to see whether a
\* message is already there.
SendSwapTestsReady(t) ==
    /\ pc[t] = "send_swap"
    /\ in_use' = TRUE
    /\ IF ready
       THEN /\ Goto(t, "idle")
            /\ ret' = [ret EXCEPT ![t] = SendPanic]
       ELSE /\ Goto(t, "send_write")
            /\ ret' = ret
    /\ UNCHANGED <<variant, message, ready, strong, alive, writers, ub>>
    /\ UNCHANGED <<arg, got, guarded, calls, histVars>>

\* Mutant of SendSwap: the slot is written before in_use is tested.
SendSwapWritesFirst(t) ==
    /\ pc[t] = "send_swap"
    /\ in_use' = TRUE
    /\ message' = arg[t]
    /\ IF in_use
       THEN /\ Goto(t, "idle")
            /\ ret' = [ret EXCEPT ![t] = SendPanic]
       ELSE /\ Goto(t, "send_write")
            /\ ret' = ret
    /\ UNCHANGED <<variant, ready, strong, alive, writers, ub>>
    /\ UNCHANGED <<arg, got, guarded, calls, histVars>>

\* Mutant of SendSwap: in_use.load(Relaxed) in place of the swap; the flag
\* is not set in the step that tests it.
SendSwapLoadOnly(t) ==
    /\ pc[t] = "send_swap"
    /\ IF in_use
       THEN /\ Goto(t, "idle")
            /\ ret' = [ret EXCEPT ![t] = SendPanic]
       ELSE /\ Goto(t, "send_write")
            /\ ret' = ret
    /\ UNCHANGED <<chanVars, arg, got, guarded, calls, histVars>>

\* safer_oneshot: if self.in_use.swap(true, Relaxed) { panic!(..) }
SendSwap(t) ==
    /\ pc[t] = "send_swap"
    /\ in_use' = TRUE
    /\ IF in_use
       THEN /\ Goto(t, "idle")
            /\ ret' = [ret EXCEPT ![t] = SendPanic]
       ELSE /\ Goto(t, "send_write")
            /\ ret' = ret
    /\ UNCHANGED <<variant, message, ready, strong, alive, writers, ub>>
    /\ UNCHANGED <<arg, got, guarded, calls, histVars>>

\* Mutant of SendWriteBegin: ready is published before the slot is written.
SendWriteBeginPublishes(t) ==
    /\ pc[t] = "send_write"
    /\ Goto(t, "send_writing")
    /\ writers' = writers \cup {t}
    /\ ub' = (ub \/ writers # {})
    /\ ready' = TRUE
    /\ UNCHANGED <<variant, message, in_use, strong, alive>>
    /\ UNCHANGED <<arg, ret, got, guarded, calls, histVars>>

\* (*self.message.get()).write(message): the write starts
SendWriteBegin(t) ==
    /\ pc[t] = "send_write"
    /\ Goto(t, "send_writing")
    /\ writers' = writers \cup {t}
    /\ ub' = (ub \/ writers # {})
    /\ UNCHANGED <<variant, message, in_use, ready, strong, alive>>
    /\ UNCHANGED <<arg, ret, got, guarded, calls, histVars>>

\* ... and completes
SendWriteEnd(t) ==
    /\ pc[t] = "send_writing"
    /\ Goto(t, "send_store")
    /\ writers' = writers \ {t}
    /\ \E v \in (IF ub THEN ReadGarbage ELSE {arg[t]}) : message' = v
    /\ written' = Append(written, arg[t])
    /\ UNCHANGED <<variant, in_use, ready, strong, alive, ub>>
    /\ UNCHANGED <<arg, ret, got, guarded, calls, sent, handed, unguarded>>
    /\ UNCHANGED <<destructed, teardowns>>

\* self.ready.store(true, Release)
SendStore(t) ==
    /\ pc[t] = "send_store"
    /\ Goto(t, AfterCall)
    /\ ready' = TRUE
    /\ ret' = [ret EXCEPT ![t] = "sent"]
    /\ UNCHANGED <<variant, message, in_use, strong, alive, writers, ub>>
    /\ UNCHANGED <<arg, got, guarded, calls, histVars>>

---------------------------------------------------------------------------
(* is_ready *)

CallIsReady(t) ==
    /\ CanCall(t, ReceiverT)
    /\ Begin(t, "ready_load")
    /\ UNCHANGED <<chanVars, arg, guarded, histVars>>

\* Mutant of IsReadyLoad: ready.swap(false, ..) in place of the load.
IsReadyLoadSwaps(t) ==
    /\ pc[t] = "ready_load"
    /\ Goto(t, "idle")
    /\ ready' = FALSE
    /\ ret' = [ret EXCEPT ![t] = IF ready THEN "true" ELSE "false"]
    /\ UNCHANGED <<variant, message, in_use, strong, alive, writers, ub>>
    /\ UNCHANGED <<arg, got, guarded, calls, histVars>>

\* self.ready.load(..)
IsReadyLoad(t) ==
    /\ pc[t] = "ready_load"
    /\ Goto(t, "idle")
    /\ ret' = [ret EXCEPT ![t] = IF ready THEN "true" ELSE "false"]
    /\ UNCHANGED <<chanVars, arg, got, guarded, calls, histVars>>

---------------------------------------------------------------------------
(* receive *)

CallReceive(t) ==
    /\ CanCall(t, ReceiverT)
    /\ Begin(t, IF variant = "unchecked" THEN "recv_read" ELSE "recv_swap")
    /\ guarded' = [guarded EXCEPT ![t] = (ret[t] = "true")]
    /\ unguarded' = (unguarded \/ ret[t] # "true")
    /\ UNCHANGED <<chanVars, arg, sent, written, handed, destructed, teardowns>>

\* Mutant of ReceiveSwap: the flag is reset but its old value is not tested.
ReceiveSwapUnchecked(t) ==
    /\ pc[t] = "recv_swap"
    /\ ready' = FALSE
    /\ Goto(t, "recv_read")
    /\ UNCHANGED <<variant, message, in_use, strong, alive, writers, ub>>
    /\ UNCHANGED <<arg, ret, got, guarded, calls, histVars>>

\* Mutant of ReceiveSwap: ready.load(Acquire) in place of the swap.
ReceiveSwapLoads(t) ==
    /\ pc[t] = "recv_swap"
    /\ IF ready
       THEN /\ Goto(t, "recv_read")
            /\ ret' = ret
       ELSE /\ Goto(t, AfterCall)
            /\ ret' = [ret EXCEPT ![t] = RecvPanic]
    /\ UNCHANGED <<chanVars, arg, got, guarded, calls, histVars>>

\* Mutant of ReceiveSwap: receive waits for the message instead of
\* panicking.
ReceiveSwapWaits(t) ==
    /\ pc[t] = "recv_swap"
    /\ ready
    /\ ready' = FALSE
    /\ Goto(t, "recv_read")
    /\ UNCHANGED <<variant, message, in_use, strong, alive, writers, ub>>
    /\ UNCHANGED <<arg, ret, got, guarded, calls, histVars>>

\* if !self.ready.swap(false, Acquire) { panic!("No message available!") }
ReceiveSwap(t) ==
    /\ pc[t] = "recv_swap"
    /\ ready' = FALSE
    /\ IF ready
       THEN /\ Goto(t, "recv_read")
            /\ ret' = ret
       ELSE /\ Goto(t, AfterCall)
            /\ ret' = [ret EXCEPT ![t] = RecvPanic]
    /\ UNCHANGED <<variant, message, in_use, strong, alive, writers, ub>>
    /\ UNCHANGED <<arg, got, guarded, calls, histVars>>

\* (*self.message.get()).assume_init_read(): a bitwise copy out of the
\* slot, which keeps its bits.
ReceiveRead(t) ==
    /\ pc[t] = "recv_read"
    /\ Goto(t, AfterCall)
    /\ LET undefined == ub \/ message = "uninit" \/ writers # {}
       IN  /\ ub' = undefined
           /\ \E v \in (IF undefined THEN ReadGarbage ELSE {message}) :
                 /\ got' = [got EXCEPT ![t] = v]
                 /\ handed' = Append(handed, v)
    /\ ret' = [ret EXCEPT ![t] = "value"]
    /\ UNCHANGED <<variant, message, in_use, ready, strong, alive, writers>>
    /\ UNCHANGED <<arg, guarded, calls, sent, written, unguarded, destructed, teardowns>>

---------------------------------------------------------------------------
(* Teardown *)

\* Mutant of ArcRelease: the Channel is dropped with the first handle.
ArcReleaseEager ==
    /\ strong' = strong - 1
    /\ ChannelDrop

\* Arc<Channel<T>>::drop of one handle: the count goes down, and the owner
\* that takes it to zero drops the Channel.
ArcRelease ==
    /\ strong' = strong - 1
    /\ IF strong = 1
       THEN ChannelDrop
       ELSE UNCHANGED <<alive, teardowns, destructed>>

\* compile_time_oneshot: `self` goes out of scope at the end of send or
\* receive, or while receive's panic unwinds.
HandleConsumed(t) ==
    /\ pc[t] = "arc_drop"
    /\ Goto(t, "gone")
    /\ ArcRelease
    /\ UNCHANGED <<variant, message, in_use, ready, writers, ub>>
    /\ UNCHANGED <<arg, ret, got, guarded, calls, sent, written, handed, unguarded>>

\* compile_time_oneshot: a Sender or Receiver dropped without being used
\* for send or receive.
HandleDropped(t) ==
    /\ variant = "static"
    /\ pc[t] = "idle"
    /\ pc' = [pc EXCEPT ![t] = "gone"]
    /\ ArcRelease
    /\ UNCHANGED <<variant, message, in_use, ready, writers, ub>>
    /\ UNCHANGED <<arg, ret, got, guarded, steps, calls>>
    /\ UNCHANGED <<sent, written, handed, unguarded>>

\* unsafe_oneshot / safer_oneshot: the owner drops the Channel; drop takes
\* &mut self, so no call is in progress.
DropChannel ==
    /\ variant # "static"
    /\ alive
    /\ \A t \in Threads : pc[t] = "idle"
    /\ ChannelDrop
    /\ UNCHANGED <<variant, message, in_use, ready, strong, writers, ub>>
    /\ UNCHANGED <<thrVars, sent, written, handed, unguarded>>

---------------------------------------------------------------------------
(* The channel under arbitrary callers *)

\* The next step of a call in progress on thread t.
OpStep(t) ==
    \/ SendSwap(t)
    \/ SendWriteBegin(t)
    \/ SendWriteEnd(t)
    \/ SendStore(t)
    \/ IsReadyLoad(t)
    \/ ReceiveSwap(t)
    \/ ReceiveRead(t)
    \/ HandleConsumed(t)

InCall(t) == pc[t] \notin {"idle", "gone"}

\* The model issues at most MaxCalls calls in a run.
Counted == calls < MaxCalls /\ calls' = calls + 1

Next ==
    \/ \E t \in Threads, v \in Values :
          CallSend(t, v) /\ Counted /\ UNCHANGED <<demoVars, mutexVars>>
    \/ \E t \in Threads : CallIsReady(t) /\ Counted /\ UNCHANGED <<demoVars, mutexVars>>
    \/ \E t \in Threads : CallReceive(t) /\ Counted /\ UNCHANGED <<demoVars, mutexVars>>
    \/ \E t \in Threads : SendSwap(t) /\ UNCHANGED <<demoVars, mutexVars>>
    \/ \E t \in Threads : SendWriteBegin(t) /\ UNCHANGED <<demoVars, mutexVars>>
    \/ \E t \in Threads : SendWriteEnd(t) /\ UNCHANGED <<demoVars, mutexVars>>
    \/ \E t \in Threads : SendStore(t) /\ UNCHANGED <<demoVars, mutexVars>>
    \/ \E t \in Threads : IsReadyLoad(t) /\ UNCHANGED <<demoVars, mutexVars>>
    \/ \E t \in Threads : ReceiveSwap(t) /\ UNCHANGED <<demoVars, mutexVars>>
    \/ \E t \in Threads : ReceiveRead(t) /\ UNCHANGED <<demoVars, mutexVars>>
    \/ \E t \in Threads : HandleConsumed(t) /\ UNCHANGED <<demoVars, mutexVars>>
    \/ \E t \in Threads : HandleDropped(t) /\ UNCHANGED <<demoVars, mutexVars>>
    \/ DropChannel /\ UNCHANGED <<demoVars, mutexVars>>

Spec == Init /\ [][Next]_vars

---------------------------------------------------------------------------
(* main.rs: one handoff over a safer_oneshot Channel, then one over a     *)
(* compile_time_oneshot channel.  The main thread receives, the spawned   *)
(* thread sends and unparks the main thread.                              *)

MainT    == ReceiverT
SpawnedT == SenderT

InitMain ==
    /\ NewChannel("runtime")
    /\ InitThreads("runtime")
    /\ InitHist
    /\ mpc = "loop"
    /\ spc = "send"
    /\ token = FALSE
    /\ NewMutexChannel

\* channel.send("Hello World!") / sender.send("Hello World!")
SpawnedSend ==
    /\ spc = "send"
    /\ CallSend(SpawnedT, Hello)
    /\ spc' = "unpark"
    /\ UNCHANGED <<calls, mpc, token, mutexVars>>

\* Mutant of SpawnedUnpark: a wakeup without a token, which only a thread
\* already parked receives.
SpawnedUnparkNoToken ==
    /\ spc = "unpark"
    /\ pc[SpawnedT] \in {"idle", "gone"}
    /\ token' = (mpc = "park")
    /\ spc' = "done"
    /\ UNCHANGED <<chanVars, thrVars, histVars, mpc, mutexVars>>

\* t.unpark(): makes the main thread's token available
SpawnedUnpark ==
    /\ spc = "unpark"
    /\ pc[SpawnedT] \in {"idle", "gone"}
    /\ token' = TRUE
    /\ spc' = "done"
    /\ UNCHANGED <<chanVars, thrVars, histVars, mpc, mutexVars>>

\* while !channel.is_ready()
MainIsReady ==
    /\ mpc = "loop"
    /\ CallIsReady(MainT)
    /\ mpc' = "test"
    /\ UNCHANGED <<calls, spc, token, mutexVars>>

MainTest ==
    /\ mpc = "test"
    /\ pc[MainT] = "idle"
    /\ mpc' = IF ret[MainT] = "true" THEN "receive" ELSE "park"
    /\ UNCHANGED <<chanVars, thrVars, histVars, spc, token, mutexVars>>

\* thread::park(): returns when the token is available and consumes it
MainPark ==
    /\ mpc = "park"
    /\ token
    /\ token' = FALSE
    /\ mpc' = "loop"
    /\ UNCHANGED <<chanVars, thrVars, histVars, spc, mutexVars>>

\* thread::park() may also return spuriously
MainSpuriousWake ==
    /\ mpc = "park"
    /\ ~token
    /\ mpc' = "loop"
    /\ UNCHANGED <<chanVars, thrVars, histVars, spc, token, mutexVars>>

\* channel.receive() / receiver.receive()
MainReceive ==
    /\ mpc = "receive"
    /\ CallReceive(MainT)
    /\ mpc' = "assert"
    /\ UNCHANGED <<calls, spc, token, mutexVars>>

\* assert_eq!(.., "Hello World!"); a panic of receive arrives here too
MainAssert ==
    /\ mpc = "assert"
    /\ pc[MainT] \in {"idle", "gone"}
    /\ mpc' = IF ret[MainT] = "value" /\ got[MainT] = Hello
              THEN "join" ELSE "panicked"
    /\ UNCHANGED <<chanVars, thrVars, histVars, spc, token, mutexVars>>

\* End of the first thread::scope (the spawned thread is joined), then
\* compile_time_oneshot::channel() at the start of the second.  The park
\* token is the thread's and carries over.  From here on the channel
\* variables are those of the second channel; no later statement touches
\* the first one.
MainSecondScope ==
    /\ mpc = "join"
    /\ spc = "done"
    /\ variant = "runtime"
    /\ variant' = "static"
    /\ message' = "uninit"
    /\ in_use' = FALSE
    /\ ready' = FALSE
    /\ strong' = 2
    /\ alive' = TRUE
    /\ writers' = {}
    /\ ub' = FALSE
    /\ pc' = [t \in Threads |->
                IF t \in {SenderT, ReceiverT} THEN "idle" ELSE "gone"]
    /\ mpc' = "loop"
    /\ spc' = "send"
    /\ UNCHANGED <<arg, ret, got, guarded, steps, calls, histVars, token, mutexVars>>

\* End of the second thread::scope and of main.
MainEnd ==
    /\ mpc = "join"
    /\ spc = "done"
    /\ variant = "static"
    /\ mpc' = "done"
    /\ UNCHANGED <<chanVars, thrVars, histVars, spc, token, mutexVars>>

MainStep ==
    \/ MainIsReady
    \/ MainTest
    \/ MainPark
    \/ MainReceive
    \/ MainAssert
    \/ MainSecondScope
    \/ MainEnd
    \/ OpStep(MainT) /\ UNCHANGED <<demoVars, mutexVars>>

SpawnedStep ==
    \/ SpawnedSend
    \/ SpawnedUnpark
    \/ OpStep(SpawnedT) /\ UNCHANGED <<demoVars, mutexVars>>

NextMain ==
    \/ SpawnedSend
    \/ SpawnedUnpark
    \/ MainIsReady
    \/ MainTest
    \/ MainPark
    \/ MainSpuriousWake
    \/ MainReceive
    \/ MainAssert
    \/ MainSecondScope
    \/ MainEnd
    \/ \E t \in {MainT, SpawnedT} : SendSwap(t) /\ UNCHANGED <<demoVars, mutexVars>>
    \/ \E t \in {MainT, SpawnedT} : SendWriteBegin(t) /\ UNCHANGED <<demoVars, mutexVars>>
    \/ \E t \in {MainT, SpawnedT} : SendWriteEnd(t) /\ UNCHANGED <<demoVars, mutexVars>>
    \/ \E t \in {MainT, SpawnedT} : SendStore(t) /\ UNCHANGED <<demoVars, mutexVars>>
    \/ \E t \in {MainT, SpawnedT} : IsReadyLoad(t) /\ UNCHANGED <<demoVars, mutexVars>>
    \/ \E t \in {MainT, SpawnedT} : ReceiveSwap(t) /\ UNCHANGED <<demoVars, mutexVars>>
    \/ \E t \in {MainT, SpawnedT} : ReceiveRead(t) /\ UNCHANGED <<demoVars, mutexVars>>
    \/ \E t \in {MainT, SpawnedT} : HandleConsumed(t) /\ UNCHANGED <<demoVars, mutexVars>>

\* The operating system schedules every runnable thread; a spurious return
\* of park is never owed.
SpecMain ==
    InitMain /\ [][NextMain]_vars /\ WF_vars(MainStep) /\ WF_vars(SpawnedStep)

---------------------------------------------------------------------------
(* mutex_based: a queue behind a Mutex, with a Condvar for receivers.     *)
(* Messages are numbered in the order send is called, so that each is     *)
(* told apart from every other.                                           *)

oneshotVars == <<chanVars, thrVars, histVars, demoVars>>

InitMutex ==
    /\ NewChannel("mutex")
    /\ InitThreads("mutex")
    /\ InitHist
    /\ mpc = "off"
    /\ spc = "off"
    /\ token = FALSE
    /\ NewMutexChannel

QGoto(t, where) == qpc' = [qpc EXCEPT ![t] = where]

\* The model issues at most MaxCalls calls in a run.
QCounted == qsent + qrecv < MaxCalls

\* send(&self, message) is called
QCallSend(t) ==
    /\ qpc[t] = "idle"
    /\ QCounted
    /\ QGoto(t, "send_lock")
    /\ qsent' = qsent + 1
    /\ qarg' = [qarg EXCEPT ![t] = qsent + 1]
    /\ UNCHANGED <<queue, queue_lock, item_ready, qgot, qrecv, pushed, popped>>
    /\ UNCHANGED oneshotVars

\* self.queue.lock().unwrap(): blocks until the Mutex is free
QSendLock(t) ==
    /\ qpc[t] = "send_lock"
    /\ queue_lock = 0
    /\ queue_lock' = t
    /\ QGoto(t, "send_push")
    /\ UNCHANGED <<queue, item_ready, qarg, qgot, qsent, qrecv, pushed, popped>>
    /\ UNCHANGED oneshotVars

\* Mutant of QSendPush: push_front in place of push_back.
QSendPushFront(t) ==
    /\ qpc[t] = "send_push"
    /\ queue_lock = t
    /\ queue' = <<qarg[t]>> \o queue
    /\ pushed' = Append(pushed, qarg[t])
    /\ queue_lock' = 0
    /\ QGoto(t, "send_notify")
    /\ UNCHANGED <<item_ready, qarg, qgot, qsent, qrecv, popped>>
    /\ UNCHANGED oneshotVars

\* .push_back(message); the guard is dropped at the end of the statement
QSendPush(t) ==
    /\ qpc[t] = "send_push"
    /\ queue_lock = t
    /\ queue' = Append(queue, qarg[t])
    /\ pushed' = Append(pushed, qarg[t])
    /\ queue_lock' = 0
    /\ QGoto(t, "send_notify")
    /\ UNCHANGED <<item_ready, qarg, qgot, qsent, qrecv, popped>>
    /\ UNCHANGED oneshotVars

\* Mutant of QSendNotify: send returns without notifying.
QSendNotifyForgets(t) ==
    /\ qpc[t] = "send_notify"
    /\ QGoto(t, "idle")
    /\ UNCHANGED <<queue, queue_lock, item_ready, qarg, qgot, qsent, qrecv>>
    /\ UNCHANGED <<pushed, popped>>
    /\ UNCHANGED oneshotVars

\* self.item_ready.notify_one(): one thread blocked in wait, if there is
\* any, is woken and has to take the Mutex again; send returns
QSendNotify(t) ==
    /\ qpc[t] = "send_notify"
    /\ IF item_ready = {}
       THEN /\ QGoto(t, "idle")
            /\ item_ready' = item_ready
       ELSE \E w \in item_ready :
               /\ item_ready' = item_ready \ {w}
               /\ qpc' = [qpc EXCEPT ![t] = "idle", ![w] = "recv_relock"]
    /\ UNCHANGED <<queue, queue_lock, qarg, qgot, qsent, qrecv, pushed, popped>>
    /\ UNCHANGED oneshotVars

\* receive(&self) is called
QCallReceive(t) ==
    /\ qpc[t] = "idle"
    /\ QCounted
    /\ QGoto(t, "recv_lock")
    /\ qrecv' = qrecv + 1
    /\ qgot' = [qgot EXCEPT ![t] = 0]
    /\ UNCHANGED <<queue, queue_lock, item_ready, qarg, qsent, pushed, popped>>
    /\ UNCHANGED oneshotVars

\* self.queue.lock().unwrap(), and the re-lock at the end of Condvar::wait
QRecvLock(t) ==
    /\ qpc[t] \in {"recv_lock", "recv_relock"}
    /\ queue_lock = 0
    /\ queue_lock' = t
    /\ QGoto(t, "recv_pop")
    /\ UNCHANGED <<queue, item_ready, qarg, qgot, qsent, qrecv, pushed, popped>>
    /\ UNCHANGED oneshotVars

\* Mutant of QRecvPop: front().clone() in place of pop_front().
QRecvPopPeeks(t) ==
    /\ qpc[t] = "recv_pop"
    /\ queue_lock = t
    /\ queue_lock' = 0
    /\ IF queue # <<>>
       THEN /\ qgot' = [qgot EXCEPT ![t] = Head(queue)]
            /\ popped' = Append(popped, Head(queue))
            /\ QGoto(t, "idle")
            /\ item_ready' = item_ready
       ELSE /\ item_ready' = item_ready \cup {t}
            /\ QGoto(t, "recv_wait")
            /\ UNCHANGED <<qgot, popped>>
    /\ UNCHANGED <<queue, qarg, qsent, qrecv, pushed>>
    /\ UNCHANGED oneshotVars

\* One turn of the loop, with the Mutex held: pop_front() and return the
\* message (the guard is dropped), or item_ready.wait(b), which unlocks the
\* Mutex and blocks the thread in one atomic step.
QRecvPop(t) ==
    /\ qpc[t] = "recv_pop"
    /\ queue_lock = t
    /\ queue_lock' = 0
    /\ IF queue # <<>>
       THEN /\ qgot' = [qgot EXCEPT ![t] = Head(queue)]
            /\ popped' = Append(popped, Head(queue))
            /\ queue' = Tail(queue)
            /\ QGoto(t, "idle")
            /\ item_ready' = item_ready
       ELSE /\ item_ready' = item_ready \cup {t}
            /\ QGoto(t, "recv_wait")
            /\ UNCHANGED <<queue, qgot, popped>>
    /\ UNCHANGED <<qarg, qsent, qrecv, pushed>>
    /\ UNCHANGED oneshotVars

\* Condvar::wait may return without a notification.
QSpuriousWake(t) ==
    /\ qpc[t] = "recv_wait"
    /\ t \in item_ready
    /\ item_ready' = item_ready \ {t}
    /\ QGoto(t, "recv_relock")
    /\ UNCHANGED <<queue, queue_lock, qarg, qgot, qsent, qrecv, pushed, popped>>
    /\ UNCHANGED oneshotVars

InReceive(t) == qpc[t] \in {"recv_lock", "recv_pop", "recv_wait", "recv_relock"}

\* What thread t does by itself once it is inside a call.
QStep(t) ==
    \/ QSendPush(t)
    \/ QSendNotify(t)
    \/ QRecvPop(t)

QLockStep(t) == QSendLock(t) \/ QRecvLock(t)

NextMutex ==
    \/ \E t \in Threads : QCallSend(t)
    \/ \E t \in Threads : QSendLock(t)
    \/ \E t \in Threads : QSendPush(t)
    \/ \E t \in Threads : QSendNotify(t)
    \/ \E t \in Threads : QCallReceive(t)
    \/ \E t \in Threads : QRecvLock(t)
    \/ \E t \in Threads : QRecvPop(t)
    \/ \E t \in Threads : QSpuriousWake(t)

\* Every thread inside a call is scheduled, and a thread that finds the
\* Mutex free again and again gets it in the end.  Calls are the callers'
\* choice and spurious wake-ups are never owed.
SpecMutex ==
    /\ InitMutex
    /\ [][NextMutex]_vars
    /\ \A t \in Threads : WF_vars(QStep(t)) /\ SF_vars(QLockStep(t))

---------------------------------------------------------------------------
(* Properties *)

Checked == {"runtime", "static"}

\* C1: round trip.  When send was called exactly once, with value v, and
\* every receive call was made right after is_ready returned true to its
\* thread, every receive that returns, in any variant, returns exactly v;
\* and such a receive panics only if another receive took the message.
RoundTrip ==
    \A t \in Threads :
        /\ (ret[t] = "value" /\ Len(sent) = 1 /\ ~unguarded) => got[t] = sent[1]
        /\ (ret[t] = RecvPanic /\ guarded[t]) =>
              (handed # <<>> \/ \E u \in Threads \ {t} : pc[u] = "recv_read")

RoundTripWitness ==
    \E t \in Threads :
        /\ variant = "unchecked"
        /\ ret[t] = "value" /\ guarded[t] /\ ~unguarded
        /\ sent = <<"other">> /\ got[t] = "other"

\* C2: premature receive.  In the runtime-checked and statically checked
\* variants, a receive whose swap finds ready = false (nothing sent yet, or
\* the send has written the slot but not yet stored ready) ends with the
\* panic "No message available!" in that very step: it does not go on to
\* read the slot and returns no value.
PrematureReceivePanics ==
    [][\A t \in Threads :
          (pc[t] = "recv_swap" /\ ~ready /\ pc'[t] # pc[t]) =>
              /\ ret'[t] = RecvPanic
              /\ pc'[t] \in {"idle", "arc_drop"}
              /\ got'[t] = "none"
              /\ handed' = handed]_vars

PrematureReceiveWitness ==
    /\ variant = "static"
    /\ pc[SenderT] = "send_store"
    /\ pc[ReceiverT] = "arc_drop"
    /\ ret[ReceiverT] = RecvPanic
    /\ handed = <<>>

\* C3: double receive.  In the runtime-checked variant at most one receive
\* ever gets past the swap on ready, so at most one value is ever returned,
\* it is the value that was written, and every other receive that has ended
\* ended with the panic "No message available!".
DoubleReceiveRejected ==
    variant = "runtime" =>
        /\ Len(handed) + Cardinality({t \in Threads : pc[t] = "recv_read"}) <= 1
        /\ \A i \in DOMAIN handed : written # <<>> /\ handed[i] = written[1]
        /\ \A t \in Threads : ret[t] = "value" => handed = <<got[t]>>

DoubleReceiveWitness ==
    \E t, u \in Threads :
        /\ variant = "runtime"
        /\ t # u
        /\ ret[t] = "value" /\ got[t] = "other"
        /\ ret[u] = RecvPanic
        /\ Len(handed) = 1

\* C4: double send.  In the runtime-checked variant a send whose swap finds
\* in_use already set ends with the panic "Can't send more than one
\* message!" in that very step, leaving the slot as it is; so the slot is
\* written at most once, by the send whose swap came first and with that
\* send's value, and every value a receive returns is that value, also
\* when the rejected send comes after the receive.
DoubleSendStep ==
    \A t \in Threads :
        (variant = "runtime" /\ pc[t] = "send_swap" /\ in_use /\ pc'[t] # pc[t]) =>
            /\ ret'[t] = SendPanic
            /\ pc'[t] = "idle"
            /\ message' = message
            /\ written' = written

DoubleSendState ==
    variant = "runtime" =>
        /\ Len(written)
             + Cardinality({t \in Threads :
                               pc[t] \in {"send_write", "send_writing"}}) <= 1
        /\ written # <<>> => message = written[1]
        /\ \A t \in Threads :
              pc[t] = "send_store" => (written = <<arg[t]>> /\ ~ready)
        /\ \A i \in DOMAIN handed : written # <<>> /\ handed[i] = written[1]

DoubleSendRejected == []DoubleSendState /\ [][DoubleSendStep]_vars

DoubleSendWitness ==
    \E t \in Threads :
        /\ variant = "runtime"
        /\ sent = <<"other", Hello>>
        /\ ret[t] = SendPanic
        /\ handed = <<"other">>
        /\ message = "other"

\* C5: no leak.  In the runtime-checked and statically checked variants, a
\* Channel torn down with a value written and never returned by a receive
\* has destructed the slot's value exactly once.
NoLeak ==
    (variant \in Checked /\ ~alive /\ written # <<>> /\ handed = <<>>) =>
        destructed = 1

NoLeakWitness ==
    /\ variant = "runtime"
    /\ ~alive
    /\ written = <<"other">>
    /\ handed = <<>>
    /\ destructed = 1

\* C6: no double destruction.  In the runtime-checked and statically
\* checked variants the slot's value is never both returned by a receive
\* and destructed, nor either of them twice; teardown after a receive has
\* returned destructs nothing, teardown of a channel nothing was sent on
\* destructs nothing, and at teardown a written value has gone exactly one
\* of the two ways.
NoDoubleDestruction ==
    variant \in Checked =>
        /\ Len(handed) + destructed <= 1
        /\ (~alive /\ handed # <<>>) => destructed = 0
        /\ (~alive /\ written = <<>>) => destructed = 0
        /\ (~alive /\ written # <<>>) => Len(handed) + destructed = 1

NoDoubleDestructionWitness ==
    /\ variant = "static"
    /\ ~alive
    /\ handed = <<Hello>>
    /\ destructed = 0
    /\ teardowns = 1

\* C7: the demonstration program.  Under fair scheduling of its two
\* threads main gets through both handoffs: each `while !is_ready() {
\* park() }` loop is left, no receive panics, both assert_eq! find "Hello
\* World!", and main reaches its end; a park token left over from the
\* first handoff and spurious returns of park do not change that.
DemoCompletes ==
    /\ [](mpc # "panicked" /\ ret[MainT] # RecvPanic)
    /\ [](mpc = "join" => got[MainT] = Hello)
    /\ <>(mpc = "done")

DemoWitness ==
    /\ mpc = "done"
    /\ variant = "static"
    /\ handed = <<Hello, Hello>>
    /\ got[MainT] = Hello
    /\ token

\* C8: non-blocking.  In every variant a thread inside send, is_ready or
\* receive always has its next step enabled, whatever the state of the
\* channel and of the other threads, and is never more than three steps
\* into a call that has not ended: calls end after at most four own steps.
NonBlocking ==
    \A t \in Threads :
        InCall(t) => (steps[t] <= 3 /\ ENABLED (OpStep(t) /\ UNCHANGED <<demoVars, mutexVars>>))

NonBlockingWitness ==
    \E t \in Threads :
        /\ pc[t] = "recv_swap"
        /\ ~ready
        /\ message = "uninit"
        /\ \E u \in Threads : pc[u] = "send_write"

\* C9: no partial failure.  In the runtime-checked variant the step in
\* which a send or a receive panics is the first step of that call, and
\* neither it nor the call's start changes the slot, ready or in_use.
NoPartialFailure ==
    [][\A t \in Threads :
          variant = "runtime" =>
              /\ (ret'[t] \in {SendPanic, RecvPanic} /\ ret[t] # ret'[t]) =>
                    /\ steps'[t] = 1
                    /\ UNCHANGED <<message, ready, in_use>>
              /\ (pc[t] = "idle" /\ pc'[t] # "idle") =>
                    UNCHANGED <<message, ready, in_use>>]_vars

NoPartialFailureWitness ==
    \E t, u \in Threads :
        /\ variant = "runtime"
        /\ ret[t] = SendPanic
        /\ ret[u] = RecvPanic
        /\ message = "other"

\* C10: statically checked teardown.  The Channel is torn down at most
\* once; it is torn down exactly when both the Sender and the Receiver are
\* gone, so never while a send or receive is in progress; and a message
\* that was written and never returned by receive has then been destructed
\* exactly once (and nothing else ever is).
StaticTeardown ==
    variant = "static" =>
        /\ teardowns <= 1
        /\ ~alive <=> (pc[SenderT] = "gone" /\ pc[ReceiverT] = "gone")
        /\ ~alive <=> teardowns = 1
        /\ alive => destructed = 0
        /\ ~alive => destructed = (IF written # <<>> /\ handed = <<>> THEN 1 ELSE 0)
        /\ ~ub

StaticTeardownWitness ==
    /\ variant = "static"
    /\ ~alive
    /\ ret[ReceiverT] = RecvPanic
    /\ ret[SenderT] = "sent"
    /\ destructed = 1

Range(f) == {f[i] : i \in DOMAIN f}

\* C11: mutex-based FIFO.  The messages popped so far, followed by the
\* queue, are the messages pushed so far in push order: send appends at
\* the back and receive takes from the front.  A send that is called has
\* no failing step, and a receive only returns in a step that finds the
\* queue non-empty and returns its front.
MutexFifoStep ==
    \A t \in Threads :
        /\ (InReceive(t) /\ ~InReceive(t)') =>
              /\ queue # <<>>
              /\ qgot'[t] = Head(queue)
              /\ queue' = Tail(queue)
        /\ (qpc[t] = "send_push" /\ qpc'[t] # qpc[t]) =>
              /\ queue' = Append(queue, qarg[t])
              /\ qpc'[t] = "send_notify"

MutexFifo ==
    /\ [](popped \o queue = pushed)
    /\ [][MutexFifoStep]_vars

MutexFifoWitness ==
    /\ pushed = <<2, 1>>
    /\ popped = <<2>>
    /\ queue = <<1>>

\* C12: mutex-based liveness.  Under the fairness of SpecMutex: if from
\* some point on at least as many sends as receives have been called, every
\* receive call returns; and no thread stays blocked in receive forever
\* while the queue stays non-empty.
MutexLiveness ==
    /\ (<>[](qsent >= qrecv)) => \A t \in Threads : []<>(~InReceive(t))
    /\ \A t \in Threads : []<>(~InReceive(t) \/ queue = <<>>)

MutexLivenessWitness ==
    \E t, u \in Threads :
        /\ t # u
        /\ qpc[t] = "recv_wait"
        /\ t \in item_ready
        /\ qpc[u] = "send_notify"
        /\ queue # <<>>

\* C18: mutex-based exactly-once delivery.  Every message a receive has
\* returned was passed to a send call before; no message is returned by
\* two receives; and the messages pushed and not yet returned are exactly
\* the ones in the queue, each once.
MutexExactlyOnce ==
    /\ \A i, j \in DOMAIN popped : i # j => popped[i] # popped[j]
    /\ \A i, j \in DOMAIN queue : i # j => queue[i] # queue[j]
    /\ Range(popped) \subseteq 1 .. qsent
    /\ Range(popped) \cap Range(queue) = {}
    /\ Range(popped) \cup Range(queue) = Range(pushed)
    /\ \A t \in Threads : (qpc[t] = "idle" /\ qgot[t] # 0) => qgot[t] \in Range(popped)
    /\ \A t, u \in Threads :
          (t # u /\ qgot[t] # 0 /\ qpc[t] = "idle" /\ qpc[u] = "idle") =>
              qgot[t] # qgot[u]

MutexExactlyOnceWitness ==
    \E t, u \in Threads :
        /\ t # u
        /\ qgot[t] = 1 /\ qgot[u] = 2
        /\ qpc[t] = "idle" /\ qpc[u] = "idle"
        /\ Len(pushed) = 2
        /\ queue = <<>>

PastSendSwap == {t \in Threads : pc[t] \in {"send_write", "send_writing", "send_store"}}

Reading == {t \in Threads : pc[t] = "recv_read"}

\* C13: single writer.  In the runtime-checked variant, however many
\* threads call send at once, in_use is set exactly when one send has got
\* past the swap; no second one ever does, so at most one thread is ever
\* writing the slot, the slot is written at most once, at most one send
\* returns normally, and no write races with anything.
SingleWriter ==
    variant = "runtime" =>
        /\ Cardinality(writers) <= 1
        /\ writers \subseteq PastSendSwap
        /\ Cardinality(PastSendSwap) <= 1
        /\ PastSendSwap # {} => written \in {<<>>} \cup {<<arg[t]>> : t \in PastSendSwap}
        /\ Len(written) <= 1
        /\ in_use <=> (PastSendSwap # {} \/ written # <<>>)
        /\ Cardinality({t \in Threads : ret[t] = "sent"}) <= 1
        /\ ~ub

SingleWriterWitness ==
    \E t, u \in Threads :
        /\ variant = "runtime"
        /\ pc[t] = "send_writing"
        /\ ret[u] = SendPanic
        /\ sent = <<"other", Hello>>
        /\ arg[t] = Hello

\* C14: single owner of the slot.  In the runtime-checked and statically
\* checked variants a receive is at its read of the slot only when no write
\* is in progress and the one write has completed; no read ever overlaps a
\* write or sees an uninitialised slot, and what receive returns is never
\* garbage.
SingleOwner ==
    variant \in Checked =>
        /\ ~ub
        /\ Reading # {} =>
              /\ writers = {}
              /\ PastSendSwap = {}
              /\ Len(written) = 1
              /\ message = written[1]
        /\ writers # {} => (Reading = {} /\ ~ready /\ message = "uninit")
        /\ \A i \in DOMAIN handed : handed[i] \in Values

SingleOwnerWitness ==
    /\ variant = "static"
    /\ pc[ReceiverT] = "recv_read"
    /\ pc[SenderT] = "arc_drop"
    /\ message = "other"

\* C15: readiness is published at most once.  In the runtime-checked
\* variant ready rises only in the store of the one send that wrote the
\* slot, with nothing received yet; once a receive has got past its swap
\* ready is false and stays false; and ready falls only in a receive's
\* swap.
PublishedOnceStep ==
    variant = "runtime" =>
        /\ (~ready /\ ready') =>
              /\ Len(written) = 1
              /\ \E t \in Threads : pc[t] = "send_store" /\ pc'[t] = "idle"
              /\ handed = <<>>
              /\ Reading = {}
        /\ (ready /\ ~ready') =>
              \E t \in Threads : pc[t] = "recv_swap" /\ pc'[t] = "recv_read"

PublishedOnceState ==
    variant = "runtime" =>
        /\ (handed # <<>> \/ Reading # {}) => ~ready
        /\ ready => (Len(written) = 1 /\ \A t \in Threads : pc[t] # "send_store")

PublishedOnce == []PublishedOnceState /\ [][PublishedOnceStep]_vars

PublishedOnceWitness ==
    \E t \in Threads :
        /\ variant = "runtime"
        /\ handed # <<>>
        /\ ~ready
        /\ ret[t] = SendPanic
        /\ calls = MaxCalls

\* C16: is_ready is a sound guard without side effects.  In the
\* runtime-checked and statically checked variants is_ready changes nothing
\* of the channel and returns the current value of ready; ready falls only
\* in a receive's swap, so is_ready keeps returning true until a receive is
\* called; and when only one thread ever calls receive, and calls it right
\* after is_ready returned true, that receive does not panic and returns
\* the value that was sent.
IsReadyStep ==
    variant \in Checked =>
        /\ \A t \in Threads :
              (pc[t] = "ready_load" /\ pc'[t] # pc[t]) =>
                  /\ UNCHANGED <<chanVars, histVars>>
                  /\ ret'[t] = (IF ready THEN "true" ELSE "false")
                  /\ pc'[t] = "idle"
        /\ \A t \in Threads :
              (pc[t] = "idle" /\ pc'[t] = "ready_load") => UNCHANGED <<chanVars, histVars>>
        /\ (ready /\ ~ready') => \E t \in Threads : pc[t] = "recv_swap"

SoleReceiver(t) == ~unguarded /\ \A u \in Threads \ {t} : ~guarded[u]

IsReadyState ==
    variant \in Checked =>
        \A t \in Threads :
            SoleReceiver(t) =>
                /\ (ret[t] = "true" \/ (pc[t] = "recv_swap" /\ guarded[t])) => ready
                /\ guarded[t] => ret[t] # RecvPanic
                /\ (guarded[t] /\ ret[t] = "value") =>
                      (Len(written) = 1 /\ got[t] = written[1])

IsReadySound == []IsReadyState /\ [][IsReadyStep]_vars

IsReadySoundWitness ==
    \E t \in Threads :
        /\ variant = "runtime"
        /\ SoleReceiver(t)
        /\ guarded[t]
        /\ ret[t] = "value"
        /\ got[t] = Hello

\* C17: flag and slot.  In the runtime-checked and statically checked
\* variants, in every state of a Channel that has not been dropped,
\* whenever ready is true the slot holds the completely written
\* value that was passed to send, no write is in progress and no receive
\* has taken the value or is taking it; in the runtime-checked variant
\* in_use is then true as well.
FlagSlot ==
    (variant \in Checked /\ alive /\ ready) =>
        /\ Len(written) = 1
        /\ message = written[1]
        /\ \E i \in DOMAIN sent : sent[i] = message
        /\ writers = {}
        /\ handed = <<>>
        /\ Reading = {}
        /\ destructed = 0
        /\ variant = "runtime" => in_use

FlagSlotWitness ==
    /\ variant = "runtime"
    /\ ready
    /\ in_use
    /\ message = "other"
    /\ \E t \in Threads : pc[t] = "recv_swap"

\* C19: the unchecked variant does not reclaim.  Nothing is ever
\* destructed in the slot, also when the Channel is dropped with a message
\* sent and not received; ready never goes back to false, so is_ready
\* returns true from the first publication on; and a read leaves the slot
\* as it is, so that a second receive returns the same message again.
UncheckedStep ==
    variant = "unchecked" =>
        /\ ready => ready'
        /\ \A t \in Threads :
              (pc[t] = "recv_read" /\ pc'[t] # pc[t]) =>
                  /\ message' = message
                  /\ (~ub /\ message # "uninit" /\ writers = {}) => got'[t] = message
        /\ \A t \in Threads :
              (pc[t] = "ready_load" /\ pc'[t] # pc[t] /\ ready) => ret'[t] = "true"

UncheckedState ==
    variant = "unchecked" =>
        /\ destructed = 0
        /\ (Len(sent) = 1 /\ ~ub) => \A i \in DOMAIN handed : handed[i] = sent[1]

UncheckedNoReclaim == []UncheckedState /\ [][UncheckedStep]_vars

UncheckedNoReclaimWitness ==
    /\ variant = "unchecked"
    /\ ~alive
    /\ ready
    /\ ~ub
    /\ sent = <<"other">>
    /\ handed = <<"other", "other">>
    /\ destructed = 0

===========================================================================
